---- MODULE Spec2Model ----
(***************************************************************************)
(* The three PDF command-line utilities of PL/Python/CG/Productivity/      *)
(* Documents/PDF: reorder.py, split.py and merge.py.  Each utility is a    *)
(* one-shot sequential script; a run is modelled from the parsed command   *)
(* line (args) and the file system (fs) it starts with, up to the point    *)
(* where the process ends (pc = "done").                                   *)
(*                                                                         *)
(* A document is the sequence of its pages; a page is the pair             *)
(* <<path, index>> of the file it was first stored in and its 0-based      *)
(* index there, so that a page moved into another file stays recognisable. *)
(***************************************************************************)
EXTENDS Integers, Sequences, FiniteSets

VARIABLES
    pc,         \* position of the running script
    args,       \* the command line (argparse namespace) or call arguments
    fs,         \* file system: path -> [kind, body]
    status,     \* exit status of the process (meaningful when pc = "done")
    stderr,     \* diagnostics written to the standard error stream
    raised,     \* uncaught exception that ended the run ("" when none)
    opened,     \* streams opened by the run and not closed by it
    written,    \* paths the run has written
    order,      \* reorder: the list returned by _make_sequence
    output,     \* reorder/split: pages added to the PdfFileWriter
    inputs,     \* merge: the expanded list of file names
    merged,     \* merge: the pikepdf document being built (NoFile before)
    skip_front, \* merge: the parameter of the same name ([] for None)
    chapters,   \* split: the parsed list of Chapter tuples
    idx         \* position of the current loop (1-based)

vars == <<pc, args, fs, status, stderr, raised, opened, written, order,
          output, inputs, merged, skip_front, chapters, idx>>

----------------------------------------------------------------------------
(* Bounds of the model                                                     *)

MaxPages == 8        \* reorder: largest page count of a document
MaxMergePages == 2   \* merge: largest page count of an input document
MaxInputs == 2       \* merge: longest list of input arguments
MaxChapters == 2     \* split: longest chapter list
MaxSplitPages == 3   \* split: largest page count of the source document

----------------------------------------------------------------------------
(* Files, documents and process exit                                       *)

\* The body of a PDF file is the sequence of its pages, the body of a CSV
\* file the sequence of its rows.
NoFile == [kind |-> "none", body |-> <<>>]
Directory == [kind |-> "dir", body |-> <<>>]
File(pages) == [kind |-> "file", body |-> pages]

\* A document of n pages stored at path p.
Doc(p, n) == File([k \in 1..n |-> <<p, k - 1>>])

\* A path that names a document of n pages, or nothing when n < 0.
DocOrNone(p, n) == IF n >= 0 THEN Doc(p, n) ELSE NoFile

\* os.path.exists / os.path.isfile / os.path.isdir
exists(path) == fs[path].kind # "none"
isfile(path) == fs[path].kind = "file"
isdir(path) == fs[path].kind = "dir"

\* Lists of at most n elements of S.
ListsUpTo(S, n) == UNION {[1..k -> S] : k \in 0..n}

Return(v) == [err |-> "", val |-> v]
Raise(e) == [err |-> e, val |-> <<>>]

\* sys.stderr.write(msg); exit(-1)
Reject(msg) ==
    /\ stderr' = Append(stderr, msg)
    /\ status' = -1
    /\ pc' = "done"

\* An exception nobody catches: traceback on stderr, status 1.  Nothing on
\* the way out closes a stream that was opened without a with-statement.
Die(exc) ==
    /\ stderr' = Append(stderr, exc)
    /\ raised' = exc
    /\ status' = 1
    /\ pc' = "done"

\* The script runs off its last line: status 0.
Finish ==
    /\ status' = 0
    /\ pc' = "done"

----------------------------------------------------------------------------
(* reorder.py                                                              *)

ReorderPaths == {"in.pdf", "out.pdf"}

\* range(a, b)
RangeFromOne(a, b) == [i \in 1..(b - a) |-> a + i]
Range(a, b) == [i \in 1..(b - a) |-> a + i - 1]

\* list.reverse()
NoReverse(s) == s
Reverse(s) == [i \in 1..Len(s) |-> s[Len(s) + 1 - i]]

\* Number of positions of the extended slice [start::2] of a list of
\* length len.
SliceLen(len, start) == IF len > start THEN (len - start + 1) \div 2 ELSE 0

\* lst[start::2] = vals, for Len(vals) = SliceLen(Len(lst), start)
SetSlice(lst, start, vals) ==
    [i \in 1..Len(lst) |->
        IF i - 1 >= start /\ (i - 1 - start) % 2 = 0
        THEN vals[(i - 1 - start) \div 2 + 1]
        ELSE lst[i]]

\* pages[half:]
FrontAgain(pages, half) == SubSeq(pages, 1, Len(pages) - half)
BackHalf(pages, half) == SubSeq(pages, half + 1, Len(pages))

\* assert n % 2 == 0
AnyCount(n) == TRUE
IsEven(n) == n % 2 = 0

\* _make_sequence(n): the list of page indices, or the exception raised.
\* An extended-slice assignment of the wrong size raises ValueError.
make_sequence(n) ==
    IF ~IsEven(n) THEN Raise("AssertionError")
    ELSE
        LET pages == Range(0, n)
            half == Len(pages) \div 2
            left == SubSeq(pages, 1, half)
            right == Reverse(BackHalf(pages, half))
            correct == Range(0, n)
        IN  IF \/ SliceLen(Len(correct), 0) # Len(left)
               \/ SliceLen(Len(correct), 1) # Len(right)
            THEN Raise("ValueError")
            ELSE Return(SetSlice(SetSlice(correct, 0, left), 1, right))

\* The states a reorder run can start in: both paths name a PDF document
\* or nothing.
InitReorder ==
    /\ pc = "reorder_main"
    /\ args \in [filename : ReorderPaths, output : ReorderPaths]
    /\ fs \in {[p \in ReorderPaths |->
                    IF p = "in.pdf" THEN DocOrNone(p, n) ELSE DocOrNone(p, m)]
                 : n \in -1..MaxPages, m \in -1..MaxPages}
    /\ status = 0
    /\ stderr = <<>>
    /\ raised = ""
    /\ opened = {}
    /\ written = {}
    /\ order = <<>>
    /\ output = <<>>
    /\ inputs = <<>>
    /\ merged = NoFile
    /\ skip_front = <<>>
    /\ chapters = <<>>
    /\ idx = 1

\* reorder.py lines 53-64: the checks of the command line.
ReorderMain ==
    /\ pc = "reorder_main"
    /\ IF ~exists(args.filename)
       THEN Reject("Input file does not exist")
       ELSE IF exists(args.output) /\ args.filename # args.output
       THEN Reject("Output file already exists")
       ELSE /\ pc' = "reorder_open"
            /\ UNCHANGED <<status, stderr>>
    /\ UNCHANGED <<args, fs, raised, opened, written, order, output, inputs,
                   merged, skip_front, chapters, idx>>

\* reorder() lines 26-31: the two assertions, then the input is opened.
ReorderOpen ==
    /\ pc = "reorder_open"
    /\ IF ~exists(args.filename) \/ exists(args.output)
       THEN /\ Die("AssertionError")
            /\ UNCHANGED opened
       ELSE /\ opened' = opened \cup {"input_stream"}
            /\ pc' = "reorder_sequence"
            /\ UNCHANGED <<status, stderr, raised>>
    /\ UNCHANGED <<args, fs, written, order, output, inputs, merged, skip_front,
                   chapters, idx>>

\* reorder() lines 33-34: the page count and the new order.
ReorderSequence ==
    /\ pc = "reorder_sequence"
    /\ LET pages == Len(fs[args.filename].body)
           r == make_sequence(pages)
       IN  IF r.err # ""
           THEN /\ Die(r.err)
                /\ UNCHANGED <<order, idx>>
           ELSE /\ order' = r.val
                /\ idx' = 1
                /\ pc' = "reorder_pages"
                /\ UNCHANGED <<status, stderr, raised>>
    /\ UNCHANGED <<args, fs, opened, written, output, inputs, merged, skip_front, chapters>>

\* reorder() lines 36-38: one turn of the loop over order.
ReorderAddPage ==
    /\ pc = "reorder_pages"
    /\ idx <= Len(order)
    /\ output' = Append(output, fs[args.filename].body[order[idx] + 1])
    /\ idx' = idx + 1
    /\ UNCHANGED <<pc, args, fs, status, stderr, raised, opened, written,
                   order, inputs, merged, skip_front, chapters>>

\* reorder() lines 40-43: the output is opened, written, and both streams
\* are closed; the script ends.
ReorderWrite ==
    /\ pc = "reorder_pages"
    /\ idx > Len(order)
    /\ fs' = [fs EXCEPT ![args.output] = File(output)]
    /\ written' = written \cup {args.output}
    /\ opened' = opened \ {"input_stream", "output_stream"}
    /\ Finish
    /\ UNCHANGED <<args, stderr, raised, order, output, inputs, merged, skip_front,
                   chapters, idx>>

NextReorder ==
    \/ ReorderMain
    \/ ReorderOpen
    \/ ReorderSequence
    \/ ReorderAddPage
    \/ ReorderWrite

SpecReorder == InitReorder /\ [][NextReorder]_vars

\* The page count of the document reorder reads.
NumPages == Len(fs[args.filename].body)

\* The pages of the input in the order of section 4.1: front half on the
\* even positions, back half reversed on the odd ones.
Interleaved(p, n) ==
    [i \in 1..n |-> <<p, IF i % 2 = 1 THEN (i - 1) \div 2 ELSE n - (i \div 2)>>]

(* C1: for every non-negative even n, _make_sequence(n) has length n with  *)
(* R[2k] = k and R[2k+1] = n-1-k for k in 0..n/2-1; n = 4 gives            *)
(* [0,3,1,2] and n = 8 gives [0,7,1,6,2,5,3,4].                            *)
C1_Interleave ==
    pc = "reorder_pages" =>
        /\ Len(order) = NumPages
        /\ \A k \in 0..(NumPages \div 2 - 1) :
              /\ order[2 * k + 1] = k
              /\ order[2 * k + 2] = NumPages - 1 - k
        /\ (NumPages = 4 => order = <<0, 3, 1, 2>>)
        /\ (NumPages = 8 => order = <<0, 7, 1, 6, 2, 5, 3, 4>>)

C1_Witness == pc = "reorder_pages" /\ order = <<0, 7, 1, 6, 2, 5, 3, 4>>

(* C2: for every even n >= 2 the sequence is a permutation of 0..n-1, so   *)
(* the file reorder writes has the page count of the input, every page of  *)
(* the input exactly once.                                                 *)
C2_Permutation ==
    /\ (pc = "reorder_pages" /\ NumPages >= 2) =>
          \A p \in 0..(NumPages - 1) :
              Cardinality({i \in 1..Len(order) : order[i] = p}) = 1
    /\ (pc = "done" /\ args.output \in written /\ NumPages >= 2) =>
          /\ Len(fs[args.output].body) = NumPages
          /\ \A j \in 1..NumPages :
                Cardinality({i \in 1..Len(fs[args.output].body) :
                    fs[args.output].body[i] = fs[args.filename].body[j]}) = 1

C2_Witness ==
    pc = "done" /\ args.output \in written /\ NumPages = 6 /\ status = 0

(* C3: for every odd n the transform fails with the InvalidArgument        *)
(* condition (the failed assertion) and yields no sequence; a reorder run  *)
(* on a document with an odd page count adds no page to the output.        *)
C3_OddRejected ==
    (exists(args.filename) /\ NumPages % 2 = 1) =>
        /\ order = <<>>
        /\ output = <<>>
        /\ written = {}
        /\ pc # "reorder_pages"
        /\ pc = "done" => status # 0
        /\ (pc = "done" /\ ~exists(args.output)) => raised = "AssertionError"

C3_Witness ==
    /\ pc = "done"
    /\ NumPages = 3
    /\ "input_stream" \in opened
    /\ raised = "AssertionError"

(* C4 (as amended): for every even n >= 2, R[0] = 0 and R[1] = n-1.        *)
C4_FirstTwo ==
    (pc = "reorder_pages" /\ NumPages >= 2) =>
        /\ order[1] = 0
        /\ order[2] = NumPages - 1

C4_Witness == pc = "reorder_pages" /\ NumPages = 6 /\ order[2] = 5

(* C4 (as stated): for all even n the transform accepts, n = 0 included,   *)
(* the result has R[0] = 0 and R[1] = n-1.                                 *)
C4_FirstTwoAnyEven ==
    pc = "reorder_pages" =>
        /\ Len(order) >= 2
        /\ order[1] = 0
        /\ order[2] = NumPages - 1

(* C6: the reorder command rejects the run (non-zero exit, diagnostic,     *)
(* nothing written) when the input is missing or the output exists and     *)
(* differs from the input; when the output equals the existing input the   *)
(* run is not rejected and the reordered pages are written to that path.   *)
C6_ReorderCommand ==
    pc = "done" =>
        /\ (\/ ~exists(args.filename)
            \/ /\ args.filename # args.output
               /\ exists(args.output)
               /\ args.output \notin written) =>
              /\ status # 0
              /\ stderr # <<>>
              /\ written = {}
        /\ (/\ args.filename = args.output
            /\ exists(args.filename)
            /\ NumPages % 2 = 0) =>
              /\ status = 0
              /\ args.output \in written
              /\ fs[args.output].body = Interleaved(args.filename, NumPages)

(* C9: every stream a run opened is released on every exit path: when the  *)
(* run has ended, normally or by an error, no stream is left open.         *)
C9_StreamsReleased == pc = "done" => opened = {}

----------------------------------------------------------------------------
(* split.py                                                                *)

SplitPaths == {"doc.pdf", "chapters.csv", "a", "b"}
ChapterNames == {"a", "b"}

Digits == <<"0", "1", "2", "3", "4", "5", "6", "7", "8", "9">>

\* The decimal text of a natural number, as a sequence of characters.
RECURSIVE DecStr(_)
DecStr(k) ==
    IF k < 10 THEN <<Digits[k + 1]>>
    ELSE Append(DecStr(k \div 10), Digits[(k % 10) + 1])

IsDigit(c) == \E d \in 1..10 : Digits[d] = c
DigitValue(c) == (CHOOSE d \in 1..10 : Digits[d] = c) - 1

\* int(text) for a text of decimal digits; anything else raises ValueError.
RECURSIVE DigitsValue(_)
DigitsValue(text) ==
    IF Len(text) = 0 THEN 0
    ELSE 10 * DigitsValue(SubSeq(text, 1, Len(text) - 1))
         + DigitValue(text[Len(text)])

int(text) ==
    IF Len(text) > 0 /\ \A i \in 1..Len(text) : IsDigit(text[i])
    THEN Return(DigitsValue(text))
    ELSE Raise("ValueError")

Chapter(name, start, stop) == [name |-> name, start |-> start, stop |-> stop]

\* _parse_splits_file: one Chapter per row, or the first exception.
RECURSIVE parse_splits_file(_)
parse_splits_file(rows) ==
    IF Len(rows) = 0 THEN Return(<<>>)
    ELSE
        LET row == rows[1]
            start == int(row.start)
            stop == int(row.end)
            rest == parse_splits_file(Tail(rows))
        IN  IF start.err # "" THEN Raise(start.err)
            ELSE IF stop.err # "" THEN Raise(stop.err)
            ELSE IF rest.err # "" THEN Raise(rest.err)
            ELSE Return(<<Chapter(row.name, start.val, stop.val)>> \o rest.val)

\* input_pdf.getPage(page_number): an index into the list of pages, with
\* Python's indexing (a negative index counts from the end).
getPage(doc, page_number) ==
    IF 0 <= page_number /\ page_number < Len(doc)
    THEN Return(doc[page_number + 1])
    ELSE IF page_number < 0 /\ -Len(doc) <= page_number
    THEN Return(doc[Len(doc) + page_number + 1])
    ELSE Raise("IndexError")

\* The pages added by "for page_number in range(lo, hi)", or the exception
\* of the first getPage that fails.
RECURSIVE pages_of_range(_, _, _)
pages_of_range(doc, lo, hi) ==
    IF lo >= hi THEN Return(<<>>)
    ELSE
        LET page == getPage(doc, lo)
            rest == pages_of_range(doc, lo + 1, hi)
        IN  IF page.err # "" THEN Raise(page.err)
            ELSE IF rest.err # "" THEN Raise(rest.err)
            ELSE Return(<<page.val>> \o rest.val)

\* range(chapter.start-1, chapter.stop)
FirstIndex(chapter) == chapter.start - 1

PageTexts == {DecStr(k) : k \in 0..(MaxSplitPages + 1)}
CsvRows == [name : ChapterNames, start : PageTexts \cup {<<"x">>}, end : PageTexts]

\* The states a split run can start in: the document and the chapter list
\* exist or not; the chapter files do not exist yet.
InitSplit ==
    /\ pc = "split_main"
    /\ args = [filename |-> "doc.pdf", chapters |-> "chapters.csv"]
    /\ \E n \in 0..MaxSplitPages, rows \in ListsUpTo(CsvRows, MaxChapters),
          csv \in BOOLEAN :
          fs = [p \in SplitPaths |->
                   IF p = "doc.pdf" THEN DocOrNone(p, IF n = 0 THEN -1 ELSE n)
                   ELSE IF p = "chapters.csv" /\ csv THEN File(rows)
                   ELSE NoFile]
    /\ status = 0
    /\ stderr = <<>>
    /\ raised = ""
    /\ opened = {}
    /\ written = {}
    /\ order = <<>>
    /\ output = <<>>
    /\ inputs = <<>>
    /\ merged = NoFile
    /\ skip_front = <<>>
    /\ chapters = <<>>
    /\ idx = 1

\* split.py lines 68-74: the checks of the command line.
SplitMain ==
    /\ pc = "split_main"
    /\ IF ~exists(args.filename)
       THEN Reject("Input file does not exist")
       ELSE IF ~exists(args.chapters)
       THEN Reject("Chapter file already exists")
       ELSE /\ pc' = "split_parse"
            /\ UNCHANGED <<status, stderr>>
    /\ UNCHANGED <<args, fs, raised, opened, written, order, output, inputs,
                   merged, skip_front, chapters, idx>>

\* split.py lines 76-77 and _parse_splits_file: the chapter list is read
\* inside a with-statement, which closes the file on every way out.
SplitParse ==
    /\ pc = "split_parse"
    /\ LET r == parse_splits_file(fs[args.chapters].body)
       IN  IF r.err # ""
           THEN /\ Die(r.err)
                /\ UNCHANGED <<chapters, idx>>
           ELSE /\ chapters' = r.val
                /\ idx' = 1
                /\ pc' = "split_loop"
                /\ UNCHANGED <<status, stderr, raised>>
    /\ UNCHANGED <<args, fs, opened, written, order, output, inputs, merged, skip_front>>

\* split() lines 41-50: the next chapter; the input is opened and a new
\* PdfFileWriter made.
SplitOpen ==
    /\ pc = "split_loop"
    /\ idx <= Len(chapters)
    /\ opened' = opened \cup {"input_stream"}
    /\ output' = <<>>
    /\ pc' = "split_pages"
    /\ UNCHANGED <<args, fs, status, stderr, raised, written, order, inputs,
                   merged, skip_front, chapters, idx>>

\* split() lines 51-53: the pages of the chapter are added; an exception
\* leaves the with-statement, which closes the input.
SplitAddPages ==
    /\ pc = "split_pages"
    /\ LET chapter == chapters[idx]
           r == pages_of_range(fs[args.filename].body, FirstIndex(chapter),
                               chapter.stop)
       IN  IF r.err # ""
           THEN /\ Die(r.err)
                /\ opened' = opened \ {"input_stream"}
                /\ UNCHANGED output
           ELSE /\ output' = r.val
                /\ pc' = "split_write"
                /\ UNCHANGED <<status, stderr, raised, opened>>
    /\ UNCHANGED <<args, fs, written, order, inputs, merged, skip_front, chapters, idx>>

\* split() lines 55-58: the chapter file is written; both with-statements
\* end and close their streams.
SplitWrite ==
    /\ pc = "split_write"
    /\ fs' = [fs EXCEPT ![chapters[idx].name] = File(output)]
    /\ written' = written \cup {chapters[idx].name}
    /\ opened' = opened \ {"input_stream", "output_stream"}
    /\ idx' = idx + 1
    /\ pc' = "split_loop"
    /\ UNCHANGED <<args, status, stderr, raised, order, output, inputs,
                   merged, skip_front, chapters>>

\* split() returns after the last chapter and the script ends.
SplitDone ==
    /\ pc = "split_loop"
    /\ idx > Len(chapters)
    /\ Finish
    /\ UNCHANGED <<args, fs, stderr, raised, opened, written, order, output,
                   inputs, merged, skip_front, chapters, idx>>

NextSplit ==
    \/ SplitMain
    \/ SplitParse
    \/ SplitOpen
    \/ SplitAddPages
    \/ SplitWrite
    \/ SplitDone

SpecSplit == InitSplit /\ [][NextSplit]_vars

\* The page count of the document split reads.
TotalPages == Len(fs[args.filename].body)

\* 1 <= start <= stop <= total page count
InRange(chapter) ==
    /\ 1 <= chapter.start
    /\ chapter.start <= chapter.stop
    /\ chapter.stop <= TotalPages

\* The source's 1-based pages start..stop.
PagesFromTo(p, start, stop) ==
    [j \in 1..(stop - start + 1) |-> <<p, start + j - 2>>]

(* C7: for every chapter (name, start, stop) with 1 <= start <= stop <=    *)
(* total page count, split writes a file called name whose pages are       *)
(* exactly the source's 1-based pages start..stop in order, whatever the   *)
(* chapters processed before it.                                           *)
C7_EveryChapterWritten ==
    /\ (pc = "split_loop" /\ idx > 1 /\ InRange(chapters[idx - 1])) =>
          fs[chapters[idx - 1].name].body =
              PagesFromTo(args.filename, chapters[idx - 1].start,
                          chapters[idx - 1].stop)
    /\ pc = "done" =>
          \A i \in 1..Len(chapters) :
              InRange(chapters[i]) => chapters[i].name \in written

(* C10: every Chapter split consumes satisfies 1 <= start <= stop <= total *)
(* page count: no output file is written for a parsed row that violates    *)
(* it.                                                                     *)
C10_WrittenChapterInRange ==
    (pc = "split_loop" /\ idx > 1) => InRange(chapters[idx - 1])

----------------------------------------------------------------------------
(* merge.py                                                                *)

MergePaths == {"out.pdf", "x.pdf", "y.pdf", "d"}

\* The input arguments tried: two plain paths (a document and a directory,
\* each present or not) and three glob patterns.
Patterns == {"x*.pdf", "y*.pdf", "*.pdf"}
ArgStrs == {"x.pdf", "d"} \cup Patterns

\* fnmatch of a path of the directory against a pattern.
Matches(path, pattern) ==
    \/ pattern = "*.pdf" /\ path \in {"out.pdf", "x.pdf", "y.pdf"}
    \/ pattern = "x*.pdf" /\ path = "x.pdf"
    \/ pattern = "y*.pdf" /\ path = "y.pdf"

\* The existing paths of a listing that match the pattern, in order.
RECURSIVE Filter(_, _)
Filter(s, pattern) ==
    IF Len(s) = 0 THEN <<>>
    ELSE (IF exists(s[1]) /\ Matches(s[1], pattern) THEN <<s[1]>> ELSE <<>>)
         \o Filter(Tail(s), pattern)

\* glob(filename): the existing paths that match, in the order the
\* directory lists them; a name without wildcard matches itself.
glob(filename, listing) ==
    IF filename \in Patterns THEN Filter(listing, filename)
    ELSE IF exists(filename) THEN <<filename>>
    ELSE <<>>

\* list + operand: defined for a list operand only.
ListAdd(result, operand) ==
    IF operand.type = "list" THEN Return(result \o operand.val)
    ELSE Raise("TypeError")

\* _expand_files lines 19-26, from the accumulated result on.
RECURSIVE expand_from(_, _, _)
expand_from(result, filenames, listing) ==
    IF Len(filenames) = 0 THEN Return(result)
    ELSE
        LET filename == filenames[1]
            plain == filename \notin Patterns
            afterFile ==
                IF plain /\ isfile(filename)
                THEN ListAdd(result, [type |-> "str", val |-> filename])
                ELSE Return(result)
            afterDir ==
                IF afterFile.err # "" THEN afterFile
                ELSE IF plain /\ isdir(filename)
                THEN ListAdd(afterFile.val, [type |-> "generator", val |-> <<>>])
                ELSE ListAdd(afterFile.val,
                             [type |-> "list", val |-> glob(filename, listing)])
        IN  IF afterDir.err # "" THEN afterDir
            ELSE expand_from(afterDir.val, Tail(filenames), listing)

\* _expand_files(filenames)
expand_files(filenames, listing) == expand_from(<<>>, filenames, listing)

\* source.pages[skip_front:]
SkipOneLess(pages, n) == SubSeq(pages, n, Len(pages))
SkipFront(pages, n) == SubSeq(pages, n + 1, Len(pages))

\* "if skip_front:" is false for None and for 0.
Truthy(opt) == opt # <<>> /\ opt[1] # 0

\* The orders in which the directory can list its documents.
Listings == {<<"x.pdf", "y.pdf", "out.pdf">>, <<"out.pdf", "y.pdf", "x.pdf">>}

\* The states a merge run can start in.
InitMerge ==
    /\ pc = "merge_main"
    /\ args \in [output : {"", "out.pdf"},
                 input : ListsUpTo(ArgStrs, MaxInputs),
                 stripfront : {<<>>} \cup {<<n>> : n \in 0..(MaxMergePages + 1)}]
    /\ \E x \in -1..MaxMergePages, y \in -1..MaxMergePages,
          d \in BOOLEAN, o \in BOOLEAN :
          fs = [p \in MergePaths |->
                   IF p = "x.pdf" THEN DocOrNone(p, x)
                   ELSE IF p = "y.pdf" THEN DocOrNone(p, y)
                   ELSE IF p = "d" THEN (IF d THEN Directory ELSE NoFile)
                   ELSE (IF o THEN Doc(p, 1) ELSE NoFile)]
    /\ status = 0
    /\ stderr = <<>>
    /\ raised = ""
    /\ opened = {}
    /\ written = {}
    /\ order = <<>>
    /\ output = <<>>
    /\ inputs = <<>>
    /\ merged = NoFile
    /\ skip_front = <<>>
    /\ chapters = <<>>
    /\ idx = 1

\* merge.py lines 54-64: the checks of the command line.
MergeMain ==
    /\ pc = "merge_main"
    /\ IF args.output = ""
       THEN Reject("Need to specify output file name")
       ELSE IF exists(args.output)
       THEN Reject("Output file already exists")
       ELSE IF args.input = <<>>
       THEN Reject("Input list of files is empty")
       ELSE /\ pc' = "merge_expand"
            /\ UNCHANGED <<status, stderr>>
    /\ UNCHANGED <<args, fs, raised, opened, written, order, output, inputs,
                   merged, skip_front, chapters, idx>>

\* merge.py lines 66-70: the inputs are expanded and each is looked up.
MergeExpand ==
    /\ pc = "merge_expand"
    /\ \E listing \in Listings :
          LET r == expand_files(args.input, listing)
          IN  IF r.err # ""
              THEN /\ Die(r.err)
                   /\ UNCHANGED inputs
              ELSE IF \E i \in 1..Len(r.val) : ~exists(r.val[i])
              THEN /\ Reject("Input file does not exist")
                   /\ inputs' = r.val
                   /\ UNCHANGED raised
              ELSE /\ inputs' = r.val
                   /\ pc' = "merge_call"
                   /\ UNCHANGED <<status, stderr, raised>>
    /\ UNCHANGED <<args, fs, opened, written, order, output, merged,
                   skip_front, chapters, idx>>

\* merge.py lines 72-75 and merge() line 32: merge is called, with the
\* default skip_front = None unless stripfront is given and not 0.
MergeCall ==
    /\ pc = "merge_call"
    /\ skip_front' = IF Truthy(args.stripfront) THEN args.stripfront ELSE <<>>
    /\ merged' = File(<<>>)
    /\ idx' = 1
    /\ pc' = "merge_loop"
    /\ UNCHANGED <<args, fs, status, stderr, raised, opened, written, order,
                   output, inputs, chapters>>

\* merge() lines 34-41: one input is opened, its pages are appended, and
\* the with-statement closes it.
MergeAdd ==
    /\ pc = "merge_loop"
    /\ idx <= Len(inputs)
    /\ LET filename == inputs[idx]
       IN  IF ~isfile(filename)
           THEN /\ Die(IF isdir(filename) THEN "IsADirectoryError"
                       ELSE "FileNotFoundError")
                /\ UNCHANGED <<merged, idx>>
           ELSE /\ merged' =
                      File(merged.body \o
                           (IF Truthy(skip_front)
                            THEN SkipFront(fs[filename].body, skip_front[1])
                            ELSE fs[filename].body))
                /\ idx' = idx + 1
                /\ UNCHANGED <<pc, status, stderr, raised>>
    /\ UNCHANGED <<args, fs, opened, written, order, output, inputs,
                   skip_front, chapters>>

\* merge() line 43: the merged document is saved and the script ends.
MergeSave ==
    /\ pc = "merge_loop"
    /\ idx > Len(inputs)
    /\ fs' = [fs EXCEPT ![args.output] = merged]
    /\ written' = written \cup {args.output}
    /\ Finish
    /\ UNCHANGED <<args, stderr, raised, opened, order, output, inputs,
                   merged, skip_front, chapters, idx>>

NextMerge ==
    \/ MergeMain
    \/ MergeExpand
    \/ MergeCall
    \/ MergeAdd
    \/ MergeSave

SpecMerge == InitMerge /\ [][NextMerge]_vars

\* The number of leading pages the command line asks to strip from every
\* input: N, or 0 when -stripfront is absent.
StripCount == IF args.stripfront = <<>> THEN 0 ELSE args.stripfront[1]

\* The pages of a document without its first n pages.
Without(pages, n) ==
    IF Len(pages) <= n THEN <<>>
    ELSE [j \in 1..(Len(pages) - n) |-> pages[j + n]]

\* The concatenation, in list order, of each source without its first n
\* pages.
RECURSIVE Concatenation(_, _)
Concatenation(filenames, n) ==
    IF Len(filenames) = 0 THEN <<>>
    ELSE Without(fs[filenames[1]].body, n) \o Concatenation(Tail(filenames), n)

(* C5: a merge command run ends with a non-zero exit status and a          *)
(* diagnostic on stderr, without calling merge() or writing the output,    *)
(* whenever the output path already exists, or the input list is empty, or *)
(* one of the given input paths does not exist.                            *)
C5_MergeRejects ==
    (/\ pc = "done"
     /\ args.output # ""
     /\ \/ exists(args.output) /\ args.output \notin written
        \/ args.input = <<>>
        \/ \E i \in 1..Len(args.input) :
              args.input[i] \notin Patterns /\ ~exists(args.input[i])) =>
        /\ status # 0
        /\ stderr # <<>>
        /\ merged = NoFile
        /\ written = {}

(* C8: for every list of input documents and every skip_front N >= 0 (or   *)
(* none), merge produces an output whose pages are the concatenation, in   *)
(* list order, of each source's pages without its first N pages.           *)
C8_MergeConcatenates ==
    /\ pc = "merge_loop" =>
          merged.body = Concatenation(SubSeq(inputs, 1, idx - 1), StripCount)
    /\ (pc = "done" /\ merged # NoFile) =>
          /\ status = 0
          /\ args.output \in written
          /\ fs[args.output].body = Concatenation(inputs, StripCount)

C8_Witness ==
    /\ pc = "done"
    /\ status = 0
    /\ inputs = <<"y.pdf", "x.pdf", "y.pdf">>
    /\ args.stripfront = <<1>>
    /\ fs[args.output].body = <<<<"y.pdf", 1>>, <<"y.pdf", 1>>>>

====
